---- MODULE Spec2Model ----
(***************************************************************************)
(* State-machine model of the Anchor programs of the repository: the       *)
(* secure ("correct-program.rs") variants of the integer, missing-signer,  *)
(* PDA, account-ownership and arbitrary-CPI examples, and the vulnerable   *)
(* ("wrong-program.rs") variants of the integer, missing-signer and PDA    *)
(* examples.                                                               *)
(*                                                                         *)
(* One invocation of an instruction is one action.  An invocation first    *)
(* runs the account validation its #[derive(Accounts)] struct declares     *)
(* (in Anchor's order: every account field is loaded in declaration order, *)
(* then the constraints are checked in declaration order), and then the    *)
(* handler body.  A returned Err or a panic ends the invocation with no    *)
(* account written (Anchor serialises an account back only on Ok, and the  *)
(* runtime discards every change of a failed transaction).                 *)
(***************************************************************************)
EXTENDS Integers, Sequences, FiniteSets, TLC

VARIABLES
    prog,       \* the program (declare_id!) this behaviour runs
    accounts,   \* address -> stored account (data and owning program)
    last,       \* the latest invocation: its inputs, result and sub-invocations
    overflow_checks
                \* the build profile of the program: whether the compiler
                \* emits overflow checks for the unchecked operators + - *
                \* (it has no effect on a program that uses none of them;
                \* those run with cargo's release default, FALSE)

vars == <<prog, accounts, last, overflow_checks>>

(***************************************************************************)
(* Bounds.  U64_MAX stands for u64::MAX (2^64 - 1): the 64-bit fields are  *)
(* scaled down to 0 .. U64_MAX, every comparison against the width is made *)
(* against this one definition.                                            *)
(***************************************************************************)
U64_MAX == 2

U64 == 0 .. U64_MAX

\* Pubkeys of the principals (wallets) that take part.
Keys == {"A", "B"}

NoKey == "NoKey"

\* Addresses.  An address is a triple: what made it, from which key or name,
\* and with which bump (0 where no bump takes part).
Addr(kind, who, n) == <<kind, who, n>>

NoAddr == Addr("none", "none", 0)

\* Owning programs of an account: the program itself, the System program
\* (an address nobody initialised) and some other program.
ThisProgram == "This"

SystemProgram == "System"

OtherProgram == "Other"

(***************************************************************************)
(* Rust's checked arithmetic on u64: Option<u64>, None as the empty        *)
(* sequence and Some(x) as <<x>>.                                          *)
(***************************************************************************)
None == << >>

Some(x) == <<x>>

checked_add(a, b) == IF a + b > U64_MAX THEN None ELSE Some(a + b)

checked_sub(a, b) == IF a < b THEN None ELSE Some(a - b)

checked_mul(a, b) == IF a * b > U64_MAX THEN None ELSE Some(a * b)

checked_div(a, b) == IF b = 0 THEN None ELSE Some(a \div b)

(***************************************************************************)
(* Outcome of an invocation: the result reported to the caller, the        *)
(* accounts as stored afterwards, and the sub-invocations (CPIs) issued    *)
(* while it ran.                                                           *)
(***************************************************************************)
Outcome(res, accts, cpis) == [result |-> res, accounts |-> accts, cpi |-> cpis]

\* Err(e): the instruction returns Err before anything is written back.
Err(e, accts) == Outcome(e, accts, << >>)

\* An instruction whose account validation fails never reaches its handler.
Invoke(validation, accts, handled) ==
    IF validation # "Ok" THEN Err(validation, accts) ELSE handled

(***************************************************************************)
(* Anchor's account types.                                                 *)
(*   Account<'info, T>: the account is owned by the program and its        *)
(*   discriminator is T's.   Signer<'info>: the account signed.            *)
(***************************************************************************)
AccountCheck(info, kind) ==
    IF info.program # ThisProgram THEN "AccountOwnedByWrongProgram"
    ELSE IF info.disc # kind THEN "AccountDiscriminatorMismatch"
    ELSE "Ok"

SignerCheck(signed) == IF signed THEN "Ok" ELSE "AccountNotSigner"

\* The first check that fails, in order; "Ok" when none does.
RECURSIVE FirstFailure(_)
FirstFailure(checks) ==
    IF checks = << >> THEN "Ok"
    ELSE IF Head(checks) # "Ok" THEN Head(checks)
    ELSE FirstFailure(Tail(checks))

(***************************************************************************)
(* INTEGER OVERFLOW AND UNDERFLOW / correct-program.rs                     *)
(***************************************************************************)
IntSecure == "integer_overflow_secure"

\* User accounts live at fresh keypair addresses.
UserAddrs == {Addr("keypair", "u1", 0), Addr("keypair", "u2", 0)}

EmptyUser ==
    [program |-> SystemProgram, disc |-> "None", authority |-> NoKey,
     points |-> 0, tokens |-> 0]

\* #[derive(Accounts)] Initialize: init creates the account, so the address
\* must not hold one yet; the payer signs.
int_Initialize(accts, ctx) ==
    FirstFailure(<<
        SignerCheck(ctx.signed),
        IF accts[ctx.acct].program # SystemProgram THEN "AccountAlreadyInUse" ELSE "Ok"
    >>)

\* #[derive(Accounts)] UpdateUser: Account<User>, Signer, has_one = authority.
int_UpdateUser(accts, ctx) ==
    FirstFailure(<<
        AccountCheck(accts[ctx.acct], "User"),
        SignerCheck(ctx.signed),
        IF accts[ctx.acct].authority # ctx.authority THEN "ConstraintHasOne" ELSE "Ok"
    >>)

int_initialize(accts, ctx) ==
    Outcome("Ok",
            [accts EXCEPT ![ctx.acct] =
                [program |-> ThisProgram, disc |-> "User",
                 authority |-> ctx.authority, points |-> 0, tokens |-> 0]],
            << >>)

\* add_points as it would be with unchecked `+` (release build): the sum wraps.
int_add_points_wrapping(accts, ctx, points) ==
    Outcome("Ok",
            [accts EXCEPT ![ctx.acct].points =
                (accts[ctx.acct].points + points) % (U64_MAX + 1)],
            << >>)

int_add_points(accts, ctx, points) ==
    LET user == accts[ctx.acct]
        r == checked_add(user.points, points)
    IN  IF r = None THEN Err("Overflow", accts)
        ELSE Outcome("Ok", [accts EXCEPT ![ctx.acct].points = r[1]], << >>)

\* remove_points as it would be with saturating_sub: never fails, stops at 0.
int_remove_points_saturating(accts, ctx, points) ==
    LET a == accts[ctx.acct].points
    IN  Outcome("Ok",
                [accts EXCEPT ![ctx.acct].points = IF a < points THEN 0 ELSE a - points],
                << >>)

int_remove_points(accts, ctx, points) ==
    LET user == accts[ctx.acct]
        r == checked_sub(user.points, points)
    IN  IF r = None THEN Err("InsufficientPoints", accts)
        ELSE Outcome("Ok", [accts EXCEPT ![ctx.acct].points = r[1]], << >>)

\* calculate_tokens as it would be with unchecked `*`: the product wraps.
int_calculate_tokens_wrapping(accts, ctx, multiplier) ==
    Outcome("Ok",
            [accts EXCEPT ![ctx.acct].tokens =
                (accts[ctx.acct].points * multiplier) % (U64_MAX + 1)],
            << >>)

\* calculate_tokens as it would be if it spent the points it converts.
int_calculate_tokens_spending(accts, ctx, multiplier) ==
    LET user == accts[ctx.acct]
        r == checked_mul(user.points, multiplier)
    IN  IF r = None THEN Err("Overflow", accts)
        ELSE Outcome("Ok",
                     [accts EXCEPT ![ctx.acct].tokens = r[1],
                                   ![ctx.acct].points = 0],
                     << >>)

int_calculate_tokens(accts, ctx, multiplier) ==
    LET user == accts[ctx.acct]
        r == checked_mul(user.points, multiplier)
    IN  IF r = None THEN Err("Overflow", accts)
        ELSE Outcome("Ok", [accts EXCEPT ![ctx.acct].tokens = r[1]], << >>)

\* calculate_average as it would be with a zero divisor mapped to a zero
\* average instead of an error.
int_calculate_average_zero(accts, ctx, divisor) ==
    Outcome("Ok",
            [accts EXCEPT ![ctx.acct].tokens =
                IF divisor = 0 THEN 0 ELSE accts[ctx.acct].points \div divisor],
            << >>)

int_calculate_average(accts, ctx, divisor) ==
    LET user == accts[ctx.acct]
        r == checked_div(user.points, divisor)
    IN  IF r = None THEN Err("DivisionByZero", accts)
        ELSE Outcome("Ok", [accts EXCEPT ![ctx.acct].tokens = r[1]], << >>)

\* The call context of an invocation: the (first) account passed, the second
\* account passed (a destination, where the instruction has one), the key of
\* the account passed as authority / owner / user / from, whether that
\* account signed the transaction, and the program account passed.
Ctx(a, t, k, s, p) ==
    [acct |-> a, to |-> t, authority |-> k, signed |-> s, program |-> p]


\* One invocation ends: the accounts are as the outcome leaves them and the
\* invocation is recorded.
Finish(op, ctx, arg, out) ==
    /\ accounts' = out.accounts
    /\ last' = [op |-> op, acct |-> ctx.acct, to |-> ctx.to,
                authority |-> ctx.authority, signed |-> ctx.signed,
                program |-> ctx.program, arg |-> arg,
                result |-> out.result, cpi |-> out.cpi]
    /\ UNCHANGED <<prog, overflow_checks>>

NoCall ==
    [op |-> "none", acct |-> NoAddr, to |-> NoAddr, authority |-> NoKey,
     signed |-> FALSE, program |-> SystemProgram, arg |-> 0,
     result |-> "Ok", cpi |-> << >>]

IntInit ==
    /\ prog = IntSecure
    /\ accounts = [a \in UserAddrs |-> EmptyUser]
    /\ last = NoCall
    /\ overflow_checks = FALSE

IntInitialize ==
    /\ prog = IntSecure
    /\ \E a \in UserAddrs, k \in Keys, s \in BOOLEAN :
         LET ctx == Ctx(a, NoAddr, k, s, SystemProgram)
         IN  Finish("initialize", ctx, 0,
                    Invoke(int_Initialize(accounts, ctx), accounts,
                           int_initialize(accounts, ctx)))

IntAddPoints ==
    /\ prog = IntSecure
    /\ \E a \in UserAddrs, k \in Keys, s \in BOOLEAN, p \in U64 :
         LET ctx == Ctx(a, NoAddr, k, s, SystemProgram)
         IN  Finish("add_points", ctx, p,
                    Invoke(int_UpdateUser(accounts, ctx), accounts,
                           int_add_points(accounts, ctx, p)))

IntRemovePoints ==
    /\ prog = IntSecure
    /\ \E a \in UserAddrs, k \in Keys, s \in BOOLEAN, p \in U64 :
         LET ctx == Ctx(a, NoAddr, k, s, SystemProgram)
         IN  Finish("remove_points", ctx, p,
                    Invoke(int_UpdateUser(accounts, ctx), accounts,
                           int_remove_points(accounts, ctx, p)))

IntCalculateTokens ==
    /\ prog = IntSecure
    /\ \E a \in UserAddrs, k \in Keys, s \in BOOLEAN, m \in U64 :
         LET ctx == Ctx(a, NoAddr, k, s, SystemProgram)
         IN  Finish("calculate_tokens", ctx, m,
                    Invoke(int_UpdateUser(accounts, ctx), accounts,
                           int_calculate_tokens(accounts, ctx, m)))

IntCalculateAverage ==
    /\ prog = IntSecure
    /\ \E a \in UserAddrs, k \in Keys, s \in BOOLEAN, d \in U64 :
         LET ctx == Ctx(a, NoAddr, k, s, SystemProgram)
         IN  Finish("calculate_average", ctx, d,
                    Invoke(int_UpdateUser(accounts, ctx), accounts,
                           int_calculate_average(accounts, ctx, d)))

IntNext ==
    \/ IntInitialize
    \/ IntAddPoints
    \/ IntRemovePoints
    \/ IntCalculateTokens
    \/ IntCalculateAverage

SpecInt == IntInit /\ [][IntNext]_vars

(***************************************************************************)
(* Program-derived addresses.  create_program_address hashes the seeds,    *)
(* the bump and the program id and fails when the hash lies on the curve;  *)
(* find_program_address tries the bumps from the highest down and returns  *)
(* the first that succeeds ("canonical bump").  The hash is modelled as an *)
(* injective tagging of its inputs; which (key, bump) pairs lie on the     *)
(* curve is a fixed, arbitrary pattern.                                    *)
(***************************************************************************)
MAX_BUMP == 2

Bumps == 0 .. MAX_BUMP

KeyIx(k) == IF k = "A" THEN 0 ELSE 1

OnCurve(k, b) == (KeyIx(k) + b) % 2 = 1

create_program_address(tag, k, b) ==
    IF k \notin Keys \/ b \notin Bumps \/ OnCurve(k, b) THEN None
    ELSE Some(Addr(tag, k, b))

find_program_address(tag, k) ==
    LET b == CHOOSE x \in Bumps :
                 /\ create_program_address(tag, k, x) # None
                 /\ \A y \in Bumps :
                        create_program_address(tag, k, y) # None => y <= x
    IN  [address |-> Addr(tag, k, b), bump |-> b]

\* seeds = [tag, key], bump = b: the account's address is the derived one.
SeedsCheck(addr, tag, k, b) ==
    IF create_program_address(tag, k, b) = Some(addr) THEN "Ok"
    ELSE "ConstraintSeeds"

\* Program<'info, T>: the program account passed is T.
ProgramCheck(p, expected) == IF p = expected THEN "Ok" ELSE "InvalidProgramId"

(***************************************************************************)
(* MISSING SIGNER CHECK / correct-program.rs                               *)
(***************************************************************************)
VaultSecure == "missing_signer_secure"

EmptyVault ==
    [program |-> SystemProgram, disc |-> "None", authority |-> NoKey,
     balance |-> 0, bump |-> 0, lamports |-> 0]

\* Every address a vault can be derived at (one per key and valid bump), and
\* the address of an account some other program made to look like a vault.
VaultAddrs ==
    {create_program_address("vault", kb[1], kb[2])[1] :
        kb \in {x \in Keys \X Bumps : ~OnCurve(x[1], x[2])}}

FakeAddr == Addr("keypair", "fake", 0)

FakeVault(k, b) ==
    [program |-> OtherProgram, disc |-> "Vault", authority |-> k,
     balance |-> U64_MAX, bump |-> b, lamports |-> U64_MAX]

\* A lamport transfer by the System program, as issued.
Transfer(amount) == [program |-> SystemProgram, amount |-> amount]

\* Initialize as it would be with init_if_needed: an address that already
\* holds a vault is accepted again.
vault_Initialize_if_needed(accts, ctx) ==
    FirstFailure(<<
        SignerCheck(ctx.signed),
        IF find_program_address("vault", ctx.authority).address # ctx.acct
            THEN "ConstraintSeeds" ELSE "Ok"
    >>)

\* init with seeds = [b"vault", authority], bump: the address is the canonical
\* derived address of the signing authority, and it holds no account yet.
vault_Initialize(accts, ctx) ==
    FirstFailure(<<
        SignerCheck(ctx.signed),
        IF find_program_address("vault", ctx.authority).address # ctx.acct
            THEN "ConstraintSeeds" ELSE "Ok",
        IF accts[ctx.acct].program # SystemProgram THEN "AccountAlreadyInUse" ELSE "Ok"
    >>)

\* Deposit as it would be with user: AccountInfo (no Signer).
vault_Deposit_unsigned(accts, ctx) ==
    FirstFailure(<<
        AccountCheck(accts[ctx.acct], "Vault"),
        SeedsCheck(ctx.acct, "vault", accts[ctx.acct].authority, accts[ctx.acct].bump)
    >>)

\* Deposit: Account<Vault> with seeds = [b"vault", vault.authority],
\* bump = vault.bump; user: Signer.  (system_program: Program<System> is the
\* System program in every call modelled here.)
vault_Deposit(accts, ctx) ==
    FirstFailure(<<
        AccountCheck(accts[ctx.acct], "Vault"),
        SignerCheck(ctx.signed),
        SeedsCheck(ctx.acct, "vault", accts[ctx.acct].authority, accts[ctx.acct].bump)
    >>)

\* SecureWithdraw as it would be with authority: AccountInfo (no Signer).
vault_SecureWithdraw_unsigned(accts, ctx) ==
    FirstFailure(<<
        AccountCheck(accts[ctx.acct], "Vault"),
        SeedsCheck(ctx.acct, "vault", accts[ctx.acct].authority, accts[ctx.acct].bump)
    >>)

\* SecureWithdraw: as Deposit, with authority: Signer.
vault_SecureWithdraw(accts, ctx) ==
    FirstFailure(<<
        AccountCheck(accts[ctx.acct], "Vault"),
        SignerCheck(ctx.signed),
        SeedsCheck(ctx.acct, "vault", accts[ctx.acct].authority, accts[ctx.acct].bump)
    >>)

vault_initialize(accts, ctx) ==
    Outcome("Ok",
            [accts EXCEPT ![ctx.acct] =
                [program |-> ThisProgram, disc |-> "Vault",
                 authority |-> ctx.authority, balance |-> 0,
                 bump |-> find_program_address("vault", ctx.authority).bump,
                 lamports |-> 0]],
            << >>)

\* deposit as it would be when it also rebinds the vault to the depositor.
vault_deposit_rebinding(accts, ctx, amount, transferred) ==
    LET vault == accts[ctx.acct]
        r == checked_add(vault.balance, amount)
    IN  IF ~transferred THEN Outcome("TransferFailed", accts, <<Transfer(amount)>>)
        ELSE IF r = None THEN Outcome("Panic", accts, <<Transfer(amount)>>)
        ELSE Outcome("Ok",
                     [accts EXCEPT ![ctx.acct].balance = r[1],
                                   ![ctx.acct].authority = ctx.authority,
                                   ![ctx.acct].lamports = vault.lamports + amount],
                     <<Transfer(amount)>>)

\* deposit as it would be with the result of the transfer ignored: the
\* balance is credited although no lamports arrived.
vault_deposit_unfunded(accts, ctx, amount, transferred) ==
    LET vault == accts[ctx.acct]
        r == checked_add(vault.balance, amount)
    IN  IF r = None THEN Outcome("Panic", accts, <<Transfer(amount)>>)
        ELSE Outcome("Ok",
                     [accts EXCEPT ![ctx.acct].balance = r[1],
                                   ![ctx.acct].lamports =
                                       IF transferred THEN vault.lamports + amount
                                       ELSE vault.lamports],
                     <<Transfer(amount)>>)

\* transferred: whether the System program carries the transfer out (the
\* payer may lack the lamports).  The transfer is issued before the balance
\* is added; a panic of unwrap() aborts the transaction, transfer included.
vault_deposit(accts, ctx, amount, transferred) ==
    LET vault == accts[ctx.acct]
        r == checked_add(vault.balance, amount)
    IN  IF ~transferred THEN Outcome("TransferFailed", accts, <<Transfer(amount)>>)
        ELSE IF r = None THEN Outcome("Panic", accts, <<Transfer(amount)>>)
        ELSE Outcome("Ok",
                     [accts EXCEPT ![ctx.acct].balance = r[1],
                                   ![ctx.acct].lamports = vault.lamports + amount],
                     <<Transfer(amount)>>)

\* withdraw as it would be when it debits first and checks afterwards: the
\* balance is already taken down when InsufficientFunds is reported.
vault_withdraw_debit_first(accts, ctx, amount, transferred) ==
    LET vault == accts[ctx.acct]
        debited == IF vault.balance < amount THEN 0 ELSE vault.balance - amount
    IN  IF vault.authority # ctx.authority THEN Err("Unauthorized", accts)
        ELSE IF ~(vault.balance >= amount)
            THEN Err("InsufficientFunds", [accts EXCEPT ![ctx.acct].balance = debited])
        ELSE IF ~transferred THEN Outcome("TransferFailed", accts, <<Transfer(amount)>>)
        ELSE Outcome("Ok",
                     [accts EXCEPT ![ctx.acct].balance = debited,
                                   ![ctx.acct].lamports = vault.lamports - amount],
                     <<Transfer(amount)>>)

\* withdraw as it would be with the two require! checks in the other order:
\* the balance is compared before the authority.
vault_withdraw_funds_first(accts, ctx, amount, transferred) ==
    LET vault == accts[ctx.acct]
        r == checked_sub(vault.balance, amount)
    IN  IF ~(vault.balance >= amount) THEN Err("InsufficientFunds", accts)
        ELSE IF vault.authority # ctx.authority THEN Err("Unauthorized", accts)
        ELSE IF ~transferred THEN Outcome("TransferFailed", accts, <<Transfer(amount)>>)
        ELSE IF r = None THEN Outcome("Panic", accts, <<Transfer(amount)>>)
        ELSE Outcome("Ok",
                     [accts EXCEPT ![ctx.acct].balance = r[1],
                                   ![ctx.acct].lamports = vault.lamports - amount],
                     <<Transfer(amount)>>)

vault_withdraw(accts, ctx, amount, transferred) ==
    LET vault == accts[ctx.acct]
        r == checked_sub(vault.balance, amount)
    IN  IF vault.authority # ctx.authority THEN Err("Unauthorized", accts)
        ELSE IF ~(vault.balance >= amount) THEN Err("InsufficientFunds", accts)
        ELSE IF ~transferred THEN Outcome("TransferFailed", accts, <<Transfer(amount)>>)
        ELSE IF r = None THEN Outcome("Panic", accts, <<Transfer(amount)>>)
        ELSE Outcome("Ok",
                     [accts EXCEPT ![ctx.acct].balance = r[1],
                                   ![ctx.acct].lamports = vault.lamports - amount],
                     <<Transfer(amount)>>)

VaultInit ==
    /\ prog = VaultSecure
    /\ \E k \in Keys :
         accounts = [a \in VaultAddrs \cup {FakeAddr} |->
                        IF a = FakeAddr
                        THEN FakeVault(k, find_program_address("vault", k).bump)
                        ELSE EmptyVault]
    /\ last = NoCall
    /\ overflow_checks = FALSE

VaultInitialize ==
    /\ prog = VaultSecure
    /\ \E a \in DOMAIN accounts, k \in Keys, s \in BOOLEAN :
         LET ctx == Ctx(a, NoAddr, k, s, SystemProgram)
         IN  Finish("initialize", ctx, 0,
                    Invoke(vault_Initialize(accounts, ctx), accounts,
                           vault_initialize(accounts, ctx)))

VaultDeposit ==
    /\ prog = VaultSecure
    /\ \E a \in DOMAIN accounts, k \in Keys, s \in BOOLEAN,
          n \in U64, t \in BOOLEAN :
         LET ctx == Ctx(a, NoAddr, k, s, SystemProgram)
         IN  Finish("deposit", ctx, n,
                    Invoke(vault_Deposit(accounts, ctx), accounts,
                           vault_deposit(accounts, ctx, n, t)))

VaultWithdraw ==
    /\ prog = VaultSecure
    /\ \E a \in DOMAIN accounts, k \in Keys, s \in BOOLEAN,
          n \in U64, t \in BOOLEAN :
         LET ctx == Ctx(a, NoAddr, k, s, SystemProgram)
         IN  Finish("withdraw", ctx, n,
                    Invoke(vault_SecureWithdraw(accounts, ctx), accounts,
                           vault_withdraw(accounts, ctx, n, t)))

VaultNext ==
    \/ VaultInitialize
    \/ VaultDeposit
    \/ VaultWithdraw

SpecVault == VaultInit /\ [][VaultNext]_vars

(***************************************************************************)
(* PDA VALIDATION / correct-program.rs                                     *)
(***************************************************************************)
PdaSecure == "pda_validation_secure"

EmptyPdaVault ==
    [program |-> SystemProgram, disc |-> "None", authority |-> NoKey,
     balance |-> 0, bump |-> 0]

FakePdaVault(k, b) ==
    [program |-> OtherProgram, disc |-> "Vault", authority |-> k,
     balance |-> U64_MAX, bump |-> b]

\* Initialize as it would be with a caller-supplied bump: any address that
\* derives from the authority's seeds is accepted, canonical or not.
pda_Initialize_any_bump(accts, ctx) ==
    FirstFailure(<<
        SignerCheck(ctx.signed),
        IF \A b \in Bumps :
               create_program_address("vault", ctx.authority, b) # Some(ctx.acct)
            THEN "ConstraintSeeds" ELSE "Ok",
        IF accts[ctx.acct].program # SystemProgram THEN "AccountAlreadyInUse" ELSE "Ok"
    >>)

pda_Initialize(accts, ctx) ==
    FirstFailure(<<
        SignerCheck(ctx.signed),
        IF find_program_address("vault", ctx.authority).address # ctx.acct
            THEN "ConstraintSeeds" ELSE "Ok",
        IF accts[ctx.acct].program # SystemProgram THEN "AccountAlreadyInUse" ELSE "Ok"
    >>)

\* Deposit: Account<Vault> with seeds = [b"vault", authority.key()],
\* bump = vault.bump; authority: Signer.
pda_Deposit(accts, ctx) ==
    FirstFailure(<<
        AccountCheck(accts[ctx.acct], "Vault"),
        SignerCheck(ctx.signed),
        SeedsCheck(ctx.acct, "vault", ctx.authority, accts[ctx.acct].bump)
    >>)

\* SecureWithdraw as it would be without the seeds and bump constraints.
pda_SecureWithdraw_unseeded(accts, ctx) ==
    FirstFailure(<<
        AccountCheck(accts[ctx.acct], "Vault"),
        SignerCheck(ctx.signed)
    >>)

\* SecureWithdraw: the same fields and constraints as Deposit.
pda_SecureWithdraw(accts, ctx) ==
    FirstFailure(<<
        AccountCheck(accts[ctx.acct], "Vault"),
        SignerCheck(ctx.signed),
        SeedsCheck(ctx.acct, "vault", ctx.authority, accts[ctx.acct].bump)
    >>)

pda_initialize(accts, ctx) ==
    Outcome("Ok",
            [accts EXCEPT ![ctx.acct] =
                [program |-> ThisProgram, disc |-> "Vault",
                 authority |-> ctx.authority, balance |-> 0,
                 bump |-> find_program_address("vault", ctx.authority).bump]],
            << >>)

pda_deposit(accts, ctx, amount) ==
    LET r == checked_add(accts[ctx.acct].balance, amount)
    IN  IF r = None THEN Err("Panic", accts)
        ELSE Outcome("Ok", [accts EXCEPT ![ctx.acct].balance = r[1]], << >>)

pda_withdraw(accts, ctx, amount) ==
    LET r == checked_sub(accts[ctx.acct].balance, amount)
    IN  IF r = None THEN Err("Panic", accts)
        ELSE Outcome("Ok", [accts EXCEPT ![ctx.acct].balance = r[1]], << >>)

PdaInit ==
    /\ prog = PdaSecure
    /\ \E k \in Keys :
         accounts = [a \in VaultAddrs \cup {FakeAddr} |->
                        IF a = FakeAddr
                        THEN FakePdaVault(k, find_program_address("vault", k).bump)
                        ELSE EmptyPdaVault]
    /\ last = NoCall
    /\ overflow_checks = FALSE

PdaInitialize ==
    /\ prog = PdaSecure
    /\ \E a \in DOMAIN accounts, k \in Keys, s \in BOOLEAN :
         LET ctx == Ctx(a, NoAddr, k, s, SystemProgram)
         IN  Finish("initialize", ctx, 0,
                    Invoke(pda_Initialize(accounts, ctx), accounts,
                           pda_initialize(accounts, ctx)))

PdaDeposit ==
    /\ prog = PdaSecure
    /\ \E a \in DOMAIN accounts, k \in Keys, s \in BOOLEAN, n \in U64 :
         LET ctx == Ctx(a, NoAddr, k, s, SystemProgram)
         IN  Finish("deposit", ctx, n,
                    Invoke(pda_Deposit(accounts, ctx), accounts,
                           pda_deposit(accounts, ctx, n)))

PdaWithdraw ==
    /\ prog = PdaSecure
    /\ \E a \in DOMAIN accounts, k \in Keys, s \in BOOLEAN, n \in U64 :
         LET ctx == Ctx(a, NoAddr, k, s, SystemProgram)
         IN  Finish("withdraw", ctx, n,
                    Invoke(pda_SecureWithdraw(accounts, ctx), accounts,
                           pda_withdraw(accounts, ctx, n)))

PdaNext ==
    \/ PdaInitialize
    \/ PdaDeposit
    \/ PdaWithdraw

SpecPda == PdaInit /\ [][PdaNext]_vars

(***************************************************************************)
(* ACCOUNT OWNERSHIP VALIDATION / correct-program.rs                       *)
(***************************************************************************)
OwnSecure == "account_ownership_secure"

OwnAddrs == {Addr("keypair", "a1", 0)}

EmptyUserAccount ==
    [program |-> SystemProgram, disc |-> "None", owner |-> NoKey,
     balance |-> 0, points |-> 0]

\* An account of another program, its bytes laid out as a UserAccount.
ForeignUserAccount(d, k) ==
    [program |-> OtherProgram, disc |-> d, owner |-> k,
     balance |-> U64_MAX, points |-> 1]

own_Initialize(accts, ctx) ==
    FirstFailure(<<
        SignerCheck(ctx.signed),
        IF accts[ctx.acct].program # SystemProgram THEN "AccountAlreadyInUse" ELSE "Ok"
    >>)

\* SecureAddPoints as it would be with user_account: AccountInfo, its bytes
\* read as a UserAccount without the owner and discriminator checks.
own_SecureAddPoints_untyped(accts, ctx) ==
    FirstFailure(<<
        SignerCheck(ctx.signed),
        IF accts[ctx.acct].owner # ctx.authority THEN "ConstraintHasOne" ELSE "Ok"
    >>)

\* SecureAddPoints: Account<UserAccount>, owner: Signer, has_one = owner.
own_SecureAddPoints(accts, ctx) ==
    FirstFailure(<<
        AccountCheck(accts[ctx.acct], "UserAccount"),
        SignerCheck(ctx.signed),
        IF accts[ctx.acct].owner # ctx.authority THEN "ConstraintHasOne" ELSE "Ok"
    >>)

\* SecureClaimReward: the same fields and constraints, not mut.
own_SecureClaimReward(accts, ctx) ==
    FirstFailure(<<
        AccountCheck(accts[ctx.acct], "UserAccount"),
        SignerCheck(ctx.signed),
        IF accts[ctx.acct].owner # ctx.authority THEN "ConstraintHasOne" ELSE "Ok"
    >>)

own_initialize(accts, ctx, initial_balance) ==
    Outcome("Ok",
            [accts EXCEPT ![ctx.acct] =
                [program |-> ThisProgram, disc |-> "UserAccount",
                 owner |-> ctx.authority, balance |-> initial_balance,
                 points |-> 0]],
            << >>)

own_add_points(accts, ctx, points) ==
    LET r == checked_add(accts[ctx.acct].points, points)
    IN  IF r = None THEN Err("Panic", accts)
        ELSE Outcome("Ok", [accts EXCEPT ![ctx.acct].points = r[1]], << >>)

\* claim_reward reads points and logs points / 100; it writes nothing.
own_claim_reward(accts, ctx) == Outcome("Ok", accts, << >>)

OwnInit ==
    /\ prog = OwnSecure
    /\ \E d \in {"UserAccount", "Bogus"}, k \in Keys :
         accounts = [a \in OwnAddrs \cup {FakeAddr} |->
                        IF a = FakeAddr THEN ForeignUserAccount(d, k)
                        ELSE EmptyUserAccount]
    /\ last = NoCall
    /\ overflow_checks = FALSE

OwnInitialize ==
    /\ prog = OwnSecure
    /\ \E a \in DOMAIN accounts, k \in Keys, s \in BOOLEAN, n \in U64 :
         LET ctx == Ctx(a, NoAddr, k, s, SystemProgram)
         IN  Finish("initialize", ctx, n,
                    Invoke(own_Initialize(accounts, ctx), accounts,
                           own_initialize(accounts, ctx, n)))

OwnAddPoints ==
    /\ prog = OwnSecure
    /\ \E a \in DOMAIN accounts, k \in Keys, s \in BOOLEAN, n \in U64 :
         LET ctx == Ctx(a, NoAddr, k, s, SystemProgram)
         IN  Finish("add_points", ctx, n,
                    Invoke(own_SecureAddPoints(accounts, ctx), accounts,
                           own_add_points(accounts, ctx, n)))

OwnClaimReward ==
    /\ prog = OwnSecure
    /\ \E a \in DOMAIN accounts, k \in Keys, s \in BOOLEAN :
         LET ctx == Ctx(a, NoAddr, k, s, SystemProgram)
         IN  Finish("claim_reward", ctx, 0,
                    Invoke(own_SecureClaimReward(accounts, ctx), accounts,
                           own_claim_reward(accounts, ctx)))

OwnNext ==
    \/ OwnInitialize
    \/ OwnAddPoints
    \/ OwnClaimReward

SpecOwn == OwnInit /\ [][OwnNext]_vars

(***************************************************************************)
(* ARBITRARY CPI / correct-program.rs                                      *)
(***************************************************************************)
CpiSecure == "arbitrary_cpi_secure"

TokenProgram == "Token"

\* The program accounts a caller can pass where a program is expected.
ProgramKeys == {TokenProgram, SystemProgram, "Evil"}

\* The whitelist as it would be with the System program added to it.
ALLOWED_PROGRAMS_with_system == {TokenProgram, SystemProgram}

ALLOWED_PROGRAMS == {TokenProgram}

\* The accounts of this program's world belong to other programs: token
\* accounts of the Token program and wallets of the System program.
TokenAddrs == {Addr("token", k, 0) : k \in Keys}

WalletAddrs == {Addr("wallet", k, 0) : k \in Keys}

TokenAccount(k, n) ==
    [program |-> TokenProgram, disc |-> "TokenAccount", authority |-> k,
     balance |-> n]

Wallet(k, n) ==
    [program |-> SystemProgram, disc |-> "None", authority |-> k, balance |-> n]

\* Account<'info, TokenAccount>: owned by the Token program.
TokenAccountCheck(info) ==
    IF info.program # TokenProgram THEN "AccountOwnedByWrongProgram" ELSE "Ok"

\* A sub-invocation, as issued: the program invoked and the amount passed.
Cpi(program, amount) == [program |-> program, amount |-> amount]

\* What the invoked program does with a transfer from -> to.  The Token and
\* System programs move the amount when the source holds it and its
\* authority signed; what any other program does is not known to the caller.
InvokeTransfer(program, accts, from, to, authority, amount) ==
    IF program \notin {TokenProgram, SystemProgram}
        THEN Outcome("Ok", accts, <<Cpi(program, amount)>>)
    ELSE IF accts[from].authority # authority \/ accts[from].balance < amount
        THEN Outcome("TransferFailed", accts, <<Cpi(program, amount)>>)
    ELSE IF from = to
        THEN Outcome("Ok", accts, <<Cpi(program, amount)>>)
    ELSE Outcome("Ok",
                 [accts EXCEPT ![from].balance = @ - amount,
                               ![to].balance = @ + amount],
                 <<Cpi(program, amount)>>)

\* SecureTokenTransfer as it would be with token_program: AccountInfo.
cpi_SecureTokenTransfer_any_program(accts, ctx) ==
    FirstFailure(<<
        TokenAccountCheck(accts[ctx.acct]),
        TokenAccountCheck(accts[ctx.to]),
        SignerCheck(ctx.signed)
    >>)

\* SecureTokenTransfer: from, to: Account<TokenAccount>; authority: Signer;
\* token_program: Program<Token>.
cpi_SecureTokenTransfer(accts, ctx) ==
    FirstFailure(<<
        TokenAccountCheck(accts[ctx.acct]),
        TokenAccountCheck(accts[ctx.to]),
        SignerCheck(ctx.signed),
        ProgramCheck(ctx.program, TokenProgram)
    >>)

\* CallWhitelisted: authority: Signer; target_program: unchecked AccountInfo.
cpi_CallWhitelisted(accts, ctx) == SignerCheck(ctx.signed)

\* TransferSol: from: Signer; to: AccountInfo; system_program: Program<System>.
cpi_TransferSol(accts, ctx) ==
    FirstFailure(<<
        SignerCheck(ctx.signed),
        ProgramCheck(ctx.program, SystemProgram)
    >>)

cpi_execute_token_transfer(accts, ctx, amount) ==
    InvokeTransfer(ctx.program, accts, ctx.acct, ctx.to, ctx.authority, amount)

cpi_call_whitelisted_program(accts, ctx) ==
    IF ctx.program \notin ALLOWED_PROGRAMS THEN Err("UnauthorizedProgram", accts)
    ELSE Outcome("Ok", accts, << >>)

cpi_transfer_sol(accts, ctx, amount) ==
    InvokeTransfer(ctx.program, accts, ctx.acct, ctx.to, ctx.authority, amount)

CpiInit ==
    /\ prog = CpiSecure
    /\ accounts = [a \in TokenAddrs \cup WalletAddrs |->
                      IF a \in TokenAddrs THEN TokenAccount(a[2], 1)
                      ELSE Wallet(a[2], 1)]
    /\ last = NoCall
    /\ overflow_checks = FALSE

CpiExecuteTokenTransfer ==
    /\ prog = CpiSecure
    /\ \E a \in DOMAIN accounts, t \in TokenAddrs, k \in Keys, s \in BOOLEAN,
          p \in ProgramKeys, n \in U64 :
         LET ctx == Ctx(a, t, k, s, p)
         IN  Finish("execute_token_transfer", ctx, n,
                    Invoke(cpi_SecureTokenTransfer(accounts, ctx), accounts,
                           cpi_execute_token_transfer(accounts, ctx, n)))

CpiCallWhitelistedProgram ==
    /\ prog = CpiSecure
    /\ \E k \in Keys, s \in BOOLEAN, p \in ProgramKeys :
         LET ctx == Ctx(NoAddr, NoAddr, k, s, p)
         IN  Finish("call_whitelisted_program", ctx, 0,
                    Invoke(cpi_CallWhitelisted(accounts, ctx), accounts,
                           cpi_call_whitelisted_program(accounts, ctx)))

\* from is the wallet of the key that is passed as signer.
CpiTransferSol ==
    /\ prog = CpiSecure
    /\ \E k \in Keys, t \in WalletAddrs, s \in BOOLEAN,
          p \in ProgramKeys, n \in U64 :
         LET ctx == Ctx(Addr("wallet", k, 0), t, k, s, p)
         IN  Finish("transfer_sol", ctx, n,
                    Invoke(cpi_TransferSol(accounts, ctx), accounts,
                           cpi_transfer_sol(accounts, ctx, n)))

CpiNext ==
    \/ CpiExecuteTokenTransfer
    \/ CpiCallWhitelistedProgram
    \/ CpiTransferSol

SpecCpi == CpiInit /\ [][CpiNext]_vars

(***************************************************************************)
(***************************************************************************)
(* MISSING SIGNER CHECK / wrong-program.rs                                 *)
(* The vulnerable vault program.  Its Vault, Initialize, Deposit,          *)
(* initialize and deposit are line for line those of the secure program,   *)
(* and so is the body of withdraw; the one difference is the Withdraw      *)
(* accounts struct, where authority is an unchecked AccountInfo.           *)
(***************************************************************************)
VaultVulnerable == "missing_signer_vulnerable"

\* Withdraw as it would be with authority: Signer.
vaultv_Withdraw_signed(accts, ctx) ==
    FirstFailure(<<
        AccountCheck(accts[ctx.acct], "Vault"),
        SignerCheck(ctx.signed),
        SeedsCheck(ctx.acct, "vault", accts[ctx.acct].authority, accts[ctx.acct].bump)
    >>)

\* Withdraw: Account<Vault> with seeds = [b"vault", vault.authority],
\* bump = vault.bump; user and authority: AccountInfo, nothing checked.
vaultv_Withdraw(accts, ctx) ==
    FirstFailure(<<
        AccountCheck(accts[ctx.acct], "Vault"),
        SeedsCheck(ctx.acct, "vault", accts[ctx.acct].authority, accts[ctx.acct].bump)
    >>)

VaultVulnInit ==
    /\ prog = VaultVulnerable
    /\ \E k \in Keys :
         accounts = [a \in VaultAddrs \cup {FakeAddr} |->
                        IF a = FakeAddr
                        THEN FakeVault(k, find_program_address("vault", k).bump)
                        ELSE EmptyVault]
    /\ last = NoCall
    /\ overflow_checks = FALSE

VaultVulnInitialize ==
    /\ prog = VaultVulnerable
    /\ \E a \in DOMAIN accounts, k \in Keys, s \in BOOLEAN :
         LET ctx == Ctx(a, NoAddr, k, s, SystemProgram)
         IN  Finish("initialize", ctx, 0,
                    Invoke(vault_Initialize(accounts, ctx), accounts,
                           vault_initialize(accounts, ctx)))

VaultVulnDeposit ==
    /\ prog = VaultVulnerable
    /\ \E a \in DOMAIN accounts, k \in Keys, s \in BOOLEAN,
          n \in U64, t \in BOOLEAN :
         LET ctx == Ctx(a, NoAddr, k, s, SystemProgram)
         IN  Finish("deposit", ctx, n,
                    Invoke(vault_Deposit(accounts, ctx), accounts,
                           vault_deposit(accounts, ctx, n, t)))

\* s: whether the account passed as authority signed the transaction.
VaultVulnWithdraw ==
    /\ prog = VaultVulnerable
    /\ \E a \in DOMAIN accounts, k \in Keys, s \in BOOLEAN,
          n \in U64, t \in BOOLEAN :
         LET ctx == Ctx(a, NoAddr, k, s, SystemProgram)
         IN  Finish("withdraw", ctx, n,
                    Invoke(vaultv_Withdraw(accounts, ctx), accounts,
                           vault_withdraw(accounts, ctx, n, t)))

VaultVulnNext ==
    \/ VaultVulnInitialize
    \/ VaultVulnDeposit
    \/ VaultVulnWithdraw

SpecVaultVuln == VaultVulnInit /\ [][VaultVulnNext]_vars

(***************************************************************************)
(* PDA VALIDATION / wrong-program.rs                                       *)
(* The vulnerable PDA program.  Its Vault stores no bump; Initialize is    *)
(* that of the secure program (init at the canonical derived address) and  *)
(* the body of deposit is the same checked_add(..).unwrap().               *)
(***************************************************************************)
PdaVulnerable == "pda_validation_vulnerable"

EmptyPdaVulnVault ==
    [program |-> SystemProgram, disc |-> "None", authority |-> NoKey,
     balance |-> 0]

FakePdaVulnVault(k) ==
    [program |-> OtherProgram, disc |-> "Vault", authority |-> k,
     balance |-> U64_MAX]

\* Deposit: Account<Vault> with seeds = [b"vault", vault.authority], bump
\* (the canonical one, found again); authority: Signer, any signer.
pdav_Deposit(accts, ctx) ==
    FirstFailure(<<
        AccountCheck(accts[ctx.acct], "Vault"),
        SignerCheck(ctx.signed),
        IF \/ accts[ctx.acct].authority \notin Keys
           \/ find_program_address("vault", accts[ctx.acct].authority).address # ctx.acct
            THEN "ConstraintSeeds" ELSE "Ok"
    >>)

\* VulnerableWithdraw as it would be with authority: AccountInfo (no Signer).
pdav_VulnerableWithdraw_unsigned(accts, ctx) ==
    AccountCheck(accts[ctx.acct], "Vault")

\* VulnerableWithdraw: Account<Vault> and authority: Signer; no seeds.
pdav_VulnerableWithdraw(accts, ctx) ==
    FirstFailure(<<
        AccountCheck(accts[ctx.acct], "Vault"),
        SignerCheck(ctx.signed)
    >>)

pdav_initialize(accts, ctx) ==
    Outcome("Ok",
            [accts EXCEPT ![ctx.acct] =
                [program |-> ThisProgram, disc |-> "Vault",
                 authority |-> ctx.authority, balance |-> 0]],
            << >>)

\* withdraw as it would be without the authority comparison.
pdav_withdraw_unchecked(accts, ctx, amount) ==
    LET r == checked_sub(accts[ctx.acct].balance, amount)
    IN  IF r = None THEN Err("Panic", accts)
        ELSE Outcome("Ok", [accts EXCEPT ![ctx.acct].balance = r[1]], << >>)

pdav_withdraw(accts, ctx, amount) ==
    LET vault == accts[ctx.acct]
        r == checked_sub(vault.balance, amount)
    IN  IF vault.authority # ctx.authority THEN Err("Unauthorized", accts)
        ELSE IF r = None THEN Err("Panic", accts)
        ELSE Outcome("Ok", [accts EXCEPT ![ctx.acct].balance = r[1]], << >>)

PdaVulnInit ==
    /\ prog = PdaVulnerable
    /\ \E k \in Keys :
         accounts = [a \in VaultAddrs \cup {FakeAddr} |->
                        IF a = FakeAddr THEN FakePdaVulnVault(k)
                        ELSE EmptyPdaVulnVault]
    /\ last = NoCall
    /\ overflow_checks = FALSE

PdaVulnInitialize ==
    /\ prog = PdaVulnerable
    /\ \E a \in DOMAIN accounts, k \in Keys, s \in BOOLEAN :
         LET ctx == Ctx(a, NoAddr, k, s, SystemProgram)
         IN  Finish("initialize", ctx, 0,
                    Invoke(pda_Initialize(accounts, ctx), accounts,
                           pdav_initialize(accounts, ctx)))

PdaVulnDeposit ==
    /\ prog = PdaVulnerable
    /\ \E a \in DOMAIN accounts, k \in Keys, s \in BOOLEAN, n \in U64 :
         LET ctx == Ctx(a, NoAddr, k, s, SystemProgram)
         IN  Finish("deposit", ctx, n,
                    Invoke(pdav_Deposit(accounts, ctx), accounts,
                           pda_deposit(accounts, ctx, n)))

PdaVulnWithdraw ==
    /\ prog = PdaVulnerable
    /\ \E a \in DOMAIN accounts, k \in Keys, s \in BOOLEAN, n \in U64 :
         LET ctx == Ctx(a, NoAddr, k, s, SystemProgram)
         IN  Finish("withdraw", ctx, n,
                    Invoke(pdav_VulnerableWithdraw(accounts, ctx), accounts,
                           pdav_withdraw(accounts, ctx, n)))

PdaVulnNext ==
    \/ PdaVulnInitialize
    \/ PdaVulnDeposit
    \/ PdaVulnWithdraw

SpecPdaVuln == PdaVulnInit /\ [][PdaVulnNext]_vars

(***************************************************************************)
(* INTEGER OVERFLOW AND UNDERFLOW / wrong-program.rs                       *)
(* The vulnerable integer program: User, Initialize, UpdateUser and        *)
(* initialize are those of the secure program; the four handlers use the   *)
(* unchecked operators.  What an unchecked + - * does on overflow depends  *)
(* on the build: with overflow checks the operation panics, without them   *)
(* the result wraps modulo 2^64.  A division by zero panics in every       *)
(* build.                                                                  *)
(***************************************************************************)
IntVulnerable == "integer_overflow_vulnerable"

\* add_points as it would be with checked_add and a typed error.
intv_add_points_checked(accts, ctx, points, checks) ==
    LET r == checked_add(accts[ctx.acct].points, points)
    IN  IF r = None THEN Err("Overflow", accts)
        ELSE Outcome("Ok", [accts EXCEPT ![ctx.acct].points = r[1]], << >>)

intv_add_points(accts, ctx, points, checks) ==
    LET sum == accts[ctx.acct].points + points
    IN  IF sum > U64_MAX /\ checks THEN Err("Panic", accts)
        ELSE Outcome("Ok",
                     [accts EXCEPT ![ctx.acct].points = sum % (U64_MAX + 1)],
                     << >>)

intv_remove_points(accts, ctx, points, checks) ==
    LET user == accts[ctx.acct]
    IN  IF user.points < points /\ checks THEN Err("Panic", accts)
        ELSE Outcome("Ok",
                     [accts EXCEPT ![ctx.acct].points =
                         (user.points + (U64_MAX + 1) - points) % (U64_MAX + 1)],
                     << >>)

intv_calculate_tokens(accts, ctx, multiplier, checks) ==
    LET product == accts[ctx.acct].points * multiplier
    IN  IF product > U64_MAX /\ checks THEN Err("Panic", accts)
        ELSE Outcome("Ok",
                     [accts EXCEPT ![ctx.acct].tokens = product % (U64_MAX + 1)],
                     << >>)

\* calculate_average as it would be with the quotient rounded up.
intv_calculate_average_rounding_up(accts, ctx, divisor) ==
    IF divisor = 0 THEN Err("Panic", accts)
    ELSE Outcome("Ok",
                 [accts EXCEPT ![ctx.acct].tokens =
                     (accts[ctx.acct].points + divisor - 1) \div divisor],
                 << >>)

intv_calculate_average(accts, ctx, divisor) ==
    IF divisor = 0 THEN Err("Panic", accts)
    ELSE Outcome("Ok",
                 [accts EXCEPT ![ctx.acct].tokens = accts[ctx.acct].points \div divisor],
                 << >>)

IntVulnInit ==
    /\ prog = IntVulnerable
    /\ accounts = [a \in UserAddrs |-> EmptyUser]
    /\ last = NoCall
    /\ overflow_checks \in BOOLEAN

IntVulnInitialize ==
    /\ prog = IntVulnerable
    /\ \E a \in UserAddrs, k \in Keys, s \in BOOLEAN :
         LET ctx == Ctx(a, NoAddr, k, s, SystemProgram)
         IN  Finish("initialize", ctx, 0,
                    Invoke(int_Initialize(accounts, ctx), accounts,
                           int_initialize(accounts, ctx)))

IntVulnAddPoints ==
    /\ prog = IntVulnerable
    /\ \E a \in UserAddrs, k \in Keys, s \in BOOLEAN, p \in U64 :
         LET ctx == Ctx(a, NoAddr, k, s, SystemProgram)
         IN  Finish("add_points", ctx, p,
                    Invoke(int_UpdateUser(accounts, ctx), accounts,
                           intv_add_points(accounts, ctx, p, overflow_checks)))

IntVulnRemovePoints ==
    /\ prog = IntVulnerable
    /\ \E a \in UserAddrs, k \in Keys, s \in BOOLEAN, p \in U64 :
         LET ctx == Ctx(a, NoAddr, k, s, SystemProgram)
         IN  Finish("remove_points", ctx, p,
                    Invoke(int_UpdateUser(accounts, ctx), accounts,
                           intv_remove_points(accounts, ctx, p, overflow_checks)))

IntVulnCalculateTokens ==
    /\ prog = IntVulnerable
    /\ \E a \in UserAddrs, k \in Keys, s \in BOOLEAN, m \in U64 :
         LET ctx == Ctx(a, NoAddr, k, s, SystemProgram)
         IN  Finish("calculate_tokens", ctx, m,
                    Invoke(int_UpdateUser(accounts, ctx), accounts,
                           intv_calculate_tokens(accounts, ctx, m, overflow_checks)))

IntVulnCalculateAverage ==
    /\ prog = IntVulnerable
    /\ \E a \in UserAddrs, k \in Keys, s \in BOOLEAN, d \in U64 :
         LET ctx == Ctx(a, NoAddr, k, s, SystemProgram)
         IN  Finish("calculate_average", ctx, d,
                    Invoke(int_UpdateUser(accounts, ctx), accounts,
                           intv_calculate_average(accounts, ctx, d)))

IntVulnNext ==
    \/ IntVulnInitialize
    \/ IntVulnAddPoints
    \/ IntVulnRemovePoints
    \/ IntVulnCalculateTokens
    \/ IntVulnCalculateAverage

SpecIntVuln == IntVulnInit /\ [][IntVulnNext]_vars

(***************************************************************************)
(* The two secure vault programs together.                                 *)
(***************************************************************************)
SecureVaultsInit == VaultInit \/ PdaInit

SecureVaultsNext == VaultNext \/ PdaNext

SpecSecureVaults == SecureVaultsInit /\ [][SecureVaultsNext]_vars

(***************************************************************************)
(* The four vault programs together: the secure and the vulnerable         *)
(* missing-signer pair and PDA pair.                                       *)
(***************************************************************************)
AllVaultsInit == SecureVaultsInit \/ VaultVulnInit \/ PdaVulnInit

AllVaultsNext == SecureVaultsNext \/ VaultVulnNext \/ PdaVulnNext

SpecAllVaults == AllVaultsInit /\ [][AllVaultsNext]_vars

(***************************************************************************)
(* The secure programs together: a behaviour runs one of them.             *)
(***************************************************************************)
SecureInit == IntInit \/ VaultInit \/ PdaInit \/ OwnInit \/ CpiInit

SecureNext == IntNext \/ VaultNext \/ PdaNext \/ OwnNext \/ CpiNext

SpecSecure == SecureInit /\ [][SecureNext]_vars

(***************************************************************************)
(* PROPERTIES                                                              *)
(***************************************************************************)

\* The call recorded in `c` is an authorized call on a User account as stored
\* in `accts`: the account is the program's, a User, and its stored
\* authority is the key passed as authority, which signed.
IntAuthorized(accts, c) ==
    /\ c.acct \in DOMAIN accts
    /\ accts[c.acct].program = ThisProgram
    /\ accts[c.acct].disc = "User"
    /\ accts[c.acct].authority = c.authority
    /\ c.signed

\* C1: all-or-nothing.  In every secure program a step whose invocation is
\* rejected (its result is anything but Ok: a failed signer, ownership,
\* derivation, authority, whitelist or balance check, a failed checked
\* operation, a panic) leaves every field of every account as it was.
C1_AllOrNothing == [][last'.result # "Ok" => accounts' = accounts]_vars

\* C1 witness: a withdraw of more than a funded vault holds was rejected.
C1_Witness ==
    /\ prog = VaultSecure
    /\ last.op = "withdraw"
    /\ last.result = "InsufficientFunds"
    /\ accounts[last.acct].balance > 0

\* C2: add_points(p) by the authority on points = a: with a + p > u64::MAX
\* it fails with Overflow and nothing changes; otherwise it succeeds and
\* points is exactly a + p.  Whoever calls it, points of no account ever
\* goes down in an add_points step (no wrapped value).
C2_AddPointsChecked ==
    [][last'.op = "add_points" =>
        /\ \A u \in UserAddrs : accounts'[u].points >= accounts[u].points
        /\ IntAuthorized(accounts, last') =>
              LET a == accounts[last'.acct].points
                  p == last'.arg
              IN  IF a + p > U64_MAX
                  THEN last'.result = "Overflow" /\ accounts' = accounts
                  ELSE /\ last'.result = "Ok"
                       /\ accounts'[last'.acct].points = a + p]_vars

\* C2 witness: points is u64::MAX and add_points(1) by the authority failed
\* with Overflow; points is still u64::MAX.
C2_Witness ==
    /\ prog = IntSecure
    /\ last.op = "add_points"
    /\ last.arg = 1
    /\ last.signed
    /\ last.result = "Overflow"
    /\ accounts[last.acct].points = U64_MAX

\* C3 as stated: remove_points(p) by the authority on points = a fails with
\* an underflow error when a < p, and sets points to a - p otherwise.
C3_AsStated ==
    [][(last'.op = "remove_points" /\ IntAuthorized(accounts, last')) =>
        LET a == accounts[last'.acct].points
            p == last'.arg
        IN  IF a < p
            THEN last'.result = "Underflow" /\ accounts' = accounts
            ELSE /\ last'.result = "Ok"
                 /\ accounts'[last'.acct].points = a - p]_vars

\* C3, amended: remove_points(p) by the authority on points = a fails with
\* InsufficientPoints (the program's ErrorCode has no underflow variant) when
\* a < p and nothing changes; for a >= p it succeeds and points is a - p.
C3_RemovePointsChecked ==
    [][(last'.op = "remove_points" /\ IntAuthorized(accounts, last')) =>
        LET a == accounts[last'.acct].points
            p == last'.arg
        IN  IF a < p
            THEN last'.result = "InsufficientPoints" /\ accounts' = accounts
            ELSE /\ last'.result = "Ok"
                 /\ accounts'[last'.acct].points = a - p]_vars

\* C3 witness: remove_points of more than the account holds was rejected.
C3_Witness ==
    /\ prog = IntSecure
    /\ last.op = "remove_points"
    /\ last.signed
    /\ last.result = "InsufficientPoints"
    /\ accounts[last.acct].points > 0
    /\ last.arg > accounts[last.acct].points

\* C4: calculate_average(d) by the authority: d = 0 fails with
\* DivisionByZero for every value of points and nothing changes; d # 0
\* succeeds and tokens is the floor of points / d, points unchanged.
C4_CalculateAverageChecked ==
    [][(last'.op = "calculate_average" /\ IntAuthorized(accounts, last')) =>
        LET a == accounts[last'.acct].points
            d == last'.arg
        IN  IF d = 0
            THEN last'.result = "DivisionByZero" /\ accounts' = accounts
            ELSE /\ last'.result = "Ok"
                 /\ accounts'[last'.acct].points = a
                 /\ \E q \in U64 :
                       /\ accounts'[last'.acct].tokens = q
                       /\ q * d <= a
                       /\ a < (q + 1) * d]_vars

\* C4 witness: calculate_average(0) was rejected on an account with points
\* and tokens set.
C4_Witness ==
    /\ prog = IntSecure
    /\ last.op = "calculate_average"
    /\ last.arg = 0
    /\ last.result = "DivisionByZero"
    /\ accounts[last.acct].points > 0
    /\ accounts[last.acct].tokens > 0

\* C5: calculate_tokens(m) by the authority: with points * m > u64::MAX it
\* fails with Overflow and tokens keeps its value; otherwise tokens is
\* exactly points * m.  No wrapped product is ever stored.
C5_CalculateTokensChecked ==
    [][(last'.op = "calculate_tokens" /\ IntAuthorized(accounts, last')) =>
        LET a == accounts[last'.acct].points
            m == last'.arg
        IN  IF a * m > U64_MAX
            THEN last'.result = "Overflow" /\ accounts' = accounts
            ELSE /\ last'.result = "Ok"
                 /\ accounts'[last'.acct].tokens = a * m
                 /\ accounts'[last'.acct].points = a]_vars

\* C5 witness: a product over u64::MAX was rejected and tokens kept a value
\* set earlier.
C5_Witness ==
    /\ prog = IntSecure
    /\ last.op = "calculate_tokens"
    /\ last.result = "Overflow"
    /\ accounts[last.acct].points * last.arg > U64_MAX
    /\ accounts[last.acct].tokens > 0

\* C6: in the secure vault program a withdraw whose authority account did
\* not sign is rejected and changes nothing, also when the key passed is
\* the vault's stored authority (on a vault of the program the rejection is
\* the signer check's); and the balance of a vault goes down only in a
\* withdraw on that vault signed by its stored authority.
C6_WithdrawNeedsSignature ==
    [][/\ (last'.op = "withdraw" /\ ~last'.signed) =>
            /\ last'.result # "Ok"
            /\ accounts' = accounts
            /\ (accounts[last'.acct].program = ThisProgram
                    => last'.result = "AccountNotSigner")
       /\ \A v \in DOMAIN accounts :
            accounts'[v].balance < accounts[v].balance =>
                /\ last'.op = "withdraw"
                /\ last'.acct = v
                /\ last'.signed
                /\ last'.authority = accounts[v].authority]_vars

\* C6 witness: a funded vault, a withdraw within the balance naming the
\* vault's stored authority, which did not sign: rejected, balance kept.
C6_Witness ==
    /\ prog = VaultSecure
    /\ last.op = "withdraw"
    /\ ~last.signed
    /\ last.authority = accounts[last.acct].authority
    /\ accounts[last.acct].program = ThisProgram
    /\ last.arg > 0
    /\ last.arg <= accounts[last.acct].balance
    /\ last.result = "AccountNotSigner"

\* C7: in the secure PDA program a deposit or withdraw on an account whose
\* address is not the one derived from ("vault", the signing authority, the
\* bump stored on the account) is rejected and no balance changes; the
\* balance of an account changes only in a call on that account signed by
\* the authority whose canonical derived address the account sits at.
C7_DerivationChecked ==
    [][/\ (/\ last'.op \in {"deposit", "withdraw"}
            /\ create_program_address("vault", last'.authority,
                                       accounts[last'.acct].bump)
                  # Some(last'.acct)) =>
            /\ last'.result # "Ok"
            /\ accounts' = accounts
       /\ \A v \in DOMAIN accounts :
            accounts'[v].balance # accounts[v].balance =>
                /\ last'.acct = v
                /\ last'.signed
                /\ v = find_program_address("vault", last'.authority).address]_vars

\* C7 witness: a signed withdraw on a funded vault of the program that
\* belongs to another authority was rejected by the seeds constraint.
C7_Witness ==
    /\ prog = PdaSecure
    /\ last.op = "withdraw"
    /\ last.signed
    /\ accounts[last.acct].program = ThisProgram
    /\ accounts[last.acct].authority # last.authority
    /\ accounts[last.acct].balance > 0
    /\ last.arg > 0
    /\ last.result = "ConstraintSeeds"

\* C8: in the secure ownership program add_points and claim_reward on an
\* account owned by another program fail with the ownership error whatever
\* the other fields are (discriminator right or wrong, stored owner key
\* equal to the signer or not, signed or not), and no account changes.
C8_OwnershipChecked ==
    [][(/\ last'.op \in {"add_points", "claim_reward"}
        /\ accounts[last'.acct].program # ThisProgram) =>
            /\ last'.result = "AccountOwnedByWrongProgram"
            /\ accounts' = accounts]_vars

\* C8 witness: add_points on another program's account that carries the
\* right discriminator and the signer's key as owner was rejected.
C8_Witness ==
    /\ prog = OwnSecure
    /\ last.op = "add_points"
    /\ last.signed
    /\ accounts[last.acct].program = OtherProgram
    /\ accounts[last.acct].disc = "UserAccount"
    /\ accounts[last.acct].owner = last.authority
    /\ last.arg > 0
    /\ last.result = "AccountOwnedByWrongProgram"

\* The programs the spec trusts as invocation targets.
TrustedProgramSet == {TokenProgram, SystemProgram}

\* C9: in the secure CPI program every sub-invocation issued goes to a
\* trusted program; call_whitelisted_program fails for every target outside
\* ALLOWED_PROGRAMS; execute_token_transfer / transfer_sol with a program
\* account other than the Token / System program are rejected with no
\* sub-invocation issued, and the ones they issue go to Token / System.
C9_OnlyTrustedTargets ==
    /\ \A i \in DOMAIN last.cpi : last.cpi[i].program \in TrustedProgramSet
    /\ (last.op = "call_whitelisted_program" /\ last.program \notin ALLOWED_PROGRAMS) =>
            last.result # "Ok" /\ last.cpi = << >>
    /\ last.op = "execute_token_transfer" =>
            /\ last.program # TokenProgram => last.result # "Ok" /\ last.cpi = << >>
            /\ \A i \in DOMAIN last.cpi : last.cpi[i].program = TokenProgram
    /\ last.op = "transfer_sol" =>
            /\ last.program # SystemProgram => last.result # "Ok" /\ last.cpi = << >>
            /\ \A i \in DOMAIN last.cpi : last.cpi[i].program = SystemProgram

\* C9 witness: an otherwise valid, signed execute_token_transfer that
\* passed an untrusted program account was rejected.
C9_Witness ==
    /\ prog = CpiSecure
    /\ last.op = "execute_token_transfer"
    /\ last.program \notin TrustedProgramSet
    /\ last.signed
    /\ last.acct \in TokenAddrs
    /\ accounts[last.acct].authority = last.authority
    /\ last.arg > 0
    /\ last.arg <= accounts[last.acct].balance
    /\ last.result = "InvalidProgramId"

\* C10 as stated: the whitelist check of call_whitelisted_program accepts
\* the Token program and the System program.
C10_AsStated ==
    (/\ last.op = "call_whitelisted_program"
     /\ last.signed
     /\ last.program \in TrustedProgramSet) => last.result = "Ok"

\* C10, amended: in every reachable state the whitelist check accepts the
\* Token program and nothing else; the System program is rejected with
\* UnauthorizedProgram like any other target.
C10_WhitelistIsTokenOnly ==
    (last.op = "call_whitelisted_program" /\ last.signed) =>
        /\ last.result = "Ok" <=> last.program = TokenProgram
        /\ last.program # TokenProgram => last.result = "UnauthorizedProgram"

\* C10 witness: a signed call_whitelisted_program with the System program
\* as target was rejected.
C10_Witness ==
    /\ prog = CpiSecure
    /\ last.op = "call_whitelisted_program"
    /\ last.signed
    /\ last.program = SystemProgram
    /\ last.result = "UnauthorizedProgram"

\* The key an initialised account is bound to: `owner` in the ownership
\* program, `authority` in the others.
StoredAuthority(acct) == IF prog = OwnSecure THEN acct.owner ELSE acct.authority

\* The vault programs: their accounts sit at derived addresses and store the
\* bump of the derivation.
SecureVaultPrograms == {VaultSecure, PdaSecure}

\* C11: once an account is initialised, no later invocation of any secure
\* program (add_points, remove_points, calculate_tokens, calculate_average,
\* claim_reward, deposit, withdraw, initialize; accepted or rejected) changes
\* its stored authority (owner key) or, in the vault programs, its stored
\* bump; and an accepted deposit or withdraw has checked the vault's address
\* against the derivation with the bump stored in the vault (the instructions
\* take no bump argument).
C11_AuthorityAndBumpFixed ==
    [][/\ \A a \in DOMAIN accounts :
            accounts[a].program = ThisProgram =>
                /\ accounts'[a].program = ThisProgram
                /\ StoredAuthority(accounts'[a]) = StoredAuthority(accounts[a])
                /\ prog \in SecureVaultPrograms =>
                       accounts'[a].bump = accounts[a].bump
       /\ (/\ prog \in SecureVaultPrograms
           /\ last'.op \in {"deposit", "withdraw"}
           /\ last'.result = "Ok") =>
              create_program_address("vault",
                                     accounts[last'.acct].authority,
                                     accounts[last'.acct].bump) = Some(last'.acct)
      ]_vars

\* C11 witness: somebody other than the vault's authority deposited into an
\* initialised vault, and the vault is still bound to its authority and to
\* the canonical bump.
C11_Witness ==
    /\ prog = VaultSecure
    /\ last.op = "deposit"
    /\ last.result = "Ok"
    /\ last.arg > 0
    /\ accounts[last.acct].authority # last.authority
    /\ accounts[last.acct].bump =
           find_program_address("vault", accounts[last.acct].authority).bump

\* C12: initialize is single-use per derived address in the secure vault
\* programs.  Once a vault exists for an authority, every later initialize
\* for that authority is rejected and leaves every account (authority,
\* balance and bump included) as it was, so a balance is never reset to 0;
\* the signed call at the vault's own address fails with AccountAlreadyInUse.
C12_InitializeOnce ==
    [][(/\ last'.op = "initialize"
        /\ \E v \in DOMAIN accounts :
               /\ accounts[v].program = ThisProgram
               /\ accounts[v].authority = last'.authority) =>
           /\ last'.result # "Ok"
           /\ accounts' = accounts
           /\ (last'.signed /\ accounts[last'.acct].program = ThisProgram
                  /\ accounts[last'.acct].authority = last'.authority) =>
                  last'.result = "AccountAlreadyInUse"
      ]_vars

\* C12 witness: a signed initialize for the authority of a funded vault, at
\* that vault's address, was rejected and the balance is still there.
C12_Witness ==
    /\ last.op = "initialize"
    /\ last.signed
    /\ last.result = "AccountAlreadyInUse"
    /\ accounts[last.acct].program = ThisProgram
    /\ accounts[last.acct].authority = last.authority
    /\ accounts[last.acct].balance > 0

\* C13 as stated: in the secure programs an initialised account changes
\* only in an accepted invocation on that account whose signer is the
\* account's stored authority, deposit into a vault included.
C13_AsStated ==
    [][\A a \in DOMAIN accounts :
           (accounts[a].program = ThisProgram /\ accounts'[a] # accounts[a]) =>
               /\ last'.result = "Ok"
               /\ last'.acct = a
               /\ last'.signed
               /\ last'.authority = StoredAuthority(accounts[a])
      ]_vars

\* C13, amended: an initialised account (its balance, points, tokens)
\* changes only in an accepted invocation on that account, whose signer
\* account signed and, in the vault programs, whose address is the one
\* derived from the stored authority and bump.  The signer is the account's
\* stored authority in every mutating instruction except deposit of the
\* missing-signer vault program, where any signing user may deposit.
C13_MutationNeedsPipeline ==
    [][\A a \in DOMAIN accounts :
           (accounts[a].program = ThisProgram /\ accounts'[a] # accounts[a]) =>
               /\ last'.result = "Ok"
               /\ last'.acct = a
               /\ last'.signed
               /\ \/ prog = VaultSecure /\ last'.op = "deposit"
                  \/ last'.authority = StoredAuthority(accounts[a])
               /\ prog \in SecureVaultPrograms =>
                      create_program_address("vault", accounts[a].authority,
                                             accounts[a].bump) = Some(a)
      ]_vars

\* C13 witness: a user who is not the vault's authority signed a deposit
\* into the vault of the missing-signer program, and the balance went up.
C13_Witness ==
    /\ prog = VaultSecure
    /\ last.op = "deposit"
    /\ last.result = "Ok"
    /\ last.signed
    /\ last.arg > 0
    /\ accounts[last.acct].balance >= last.arg
    /\ last.authority # accounts[last.acct].authority

\* C14 as stated: an arithmetic failure of a secure handler is a typed
\* error, never a crash: add_points of the ownership program and deposit
\* of the two vault programs never end in a panic.
C14_AsStated ==
    (\/ prog = OwnSecure /\ last.op = "add_points"
     \/ prog \in SecureVaultPrograms /\ last.op = "deposit") =>
        last.result # "Panic"

\* C15 as stated: in the secure vault program a deposit or withdraw that
\* ends rejected has performed no lamport transfer: whatever can fail has
\* failed before the transfer is issued.  (A transfer the System program
\* itself refuses is issued but not performed.)
C15_AsStated ==
    (/\ prog = VaultSecure
     /\ last.op \in {"deposit", "withdraw"}
     /\ last.result \notin {"Ok", "TransferFailed"}) => last.cpi = << >>

\* The call recorded in `c` is an authorized call on a vault as stored in
\* `accts`: the account is the program's, a Vault, and its stored authority
\* is the key passed as authority, which signed.
VaultAuthorized(accts, c) ==
    /\ c.acct \in DOMAIN accts
    /\ accts[c.acct].program = ThisProgram
    /\ accts[c.acct].disc = "Vault"
    /\ accts[c.acct].authority = c.authority
    /\ c.signed

\* C16 as stated: in both secure vault programs an authorized
\* withdraw(amount) with amount > balance is rejected with the program's
\* insufficient-balance error (ErrorCode::InsufficientFunds) and changes
\* nothing; with amount <= balance it succeeds (unless the System program
\* refuses the lamport transfer) and the balance becomes balance - amount.
C16_AsStated ==
    [][(/\ prog \in SecureVaultPrograms
        /\ last'.op = "withdraw"
        /\ VaultAuthorized(accounts, last')) =>
           IF last'.arg > accounts[last'.acct].balance
           THEN /\ last'.result = "InsufficientFunds"
                /\ accounts' = accounts
           ELSE /\ last'.result \in {"Ok", "TransferFailed"}
                /\ last'.result = "Ok" =>
                       accounts'[last'.acct].balance =
                           accounts[last'.acct].balance - last'.arg
      ]_vars

\* C17: fail-fast order of withdraw in the secure vault program, on a vault
\* of the program and an amount above its balance: without the authority
\* account's signature the result is the signer failure (AccountNotSigner);
\* signed by a key that is not the vault's stored authority it is
\* Unauthorized, never InsufficientFunds; and InsufficientFunds is reported
\* only when the signer, derivation and authority-match checks all passed.
C17_WithdrawFailFast ==
    [][(prog = VaultSecure /\ last'.op = "withdraw") =>
           LET vault == accounts[last'.acct]
               isVault == vault.program = ThisProgram /\ vault.disc = "Vault"
               over == last'.arg > vault.balance
           IN  /\ (isVault /\ over /\ ~last'.signed) =>
                      last'.result = "AccountNotSigner"
               /\ (isVault /\ over /\ last'.signed
                      /\ last'.authority # vault.authority) =>
                      last'.result = "Unauthorized"
               /\ last'.result = "InsufficientFunds" =>
                      /\ isVault
                      /\ last'.signed
                      /\ create_program_address("vault", vault.authority,
                                                vault.bump) = Some(last'.acct)
                      /\ last'.authority = vault.authority
                      /\ over
      ]_vars

\* C17 witness: a withdraw above the balance of a vault, signed by a key
\* that is not the vault's authority, was rejected as Unauthorized.
C17_Witness ==
    /\ prog = VaultSecure
    /\ last.op = "withdraw"
    /\ last.signed
    /\ accounts[last.acct].program = ThisProgram
    /\ last.authority # accounts[last.acct].authority
    /\ last.arg > accounts[last.acct].balance
    /\ last.result = "Unauthorized"

\* C18: in the vulnerable vault program withdraw needs no signature of the
\* vault's authority.  A withdraw on a vault of the program, with an
\* authority account that has the key stored in vault.authority but did
\* not sign, and with amount <= balance, is accepted whenever the lamport
\* transfer goes through, and takes the balance down by the amount: only
\* the equality of the two keys is checked.
C18_UnsignedWithdrawAccepted ==
    [][(/\ prog = VaultVulnerable
        /\ last'.op = "withdraw"
        /\ accounts[last'.acct].program = ThisProgram
        /\ accounts[last'.acct].disc = "Vault"
        /\ accounts[last'.acct].authority = last'.authority
        /\ ~last'.signed
        /\ last'.arg <= accounts[last'.acct].balance) =>
           /\ last'.result \in {"Ok", "TransferFailed"}
           /\ last'.result = "Ok" =>
                  accounts'[last'.acct].balance =
                      accounts[last'.acct].balance - last'.arg
      ]_vars

\* C18 witness: a withdraw the vault's authority did not sign succeeded and
\* emptied a funded vault.
C18_Witness ==
    /\ prog = VaultVulnerable
    /\ last.op = "withdraw"
    /\ last.result = "Ok"
    /\ ~last.signed
    /\ last.arg > 0
    /\ accounts[last.acct].program = ThisProgram
    /\ accounts[last.acct].authority = last.authority
    /\ accounts[last.acct].balance = 0

\* A withdraw step of the vulnerable PDA program that takes the balance of
\* a vault down although the vault is not the canonical derived vault of
\* the authority that signed.
NonCanonicalDebit ==
    /\ PdaVulnWithdraw
    /\ last'.result = "Ok"
    /\ last'.acct # find_program_address("vault", last'.authority).address
    /\ accounts'[last'.acct].balance < accounts[last'.acct].balance

InitializedVaults(accts) ==
    {a \in DOMAIN accts :
        accts[a].program = ThisProgram /\ accts[a].disc = "Vault"}

\* C21: in the two PDA programs and the two missing-signer vault programs,
\* in every reachable state, every initialised vault sits at the canonical
\* address derived from ("vault", its stored authority), and no two
\* initialised vaults store the same authority.
C21_VaultsAreCanonical ==
    /\ \A v \in InitializedVaults(accounts) :
           /\ accounts[v].authority \in Keys
           /\ v = find_program_address("vault", accounts[v].authority).address
    /\ \A v, w \in InitializedVaults(accounts) :
           accounts[v].authority = accounts[w].authority => v = w

\* C21 witness: every key has its vault, in the vulnerable PDA program, and
\* an address derived with a non-canonical bump still holds no account.
C21_Witness ==
    /\ prog = PdaVulnerable
    /\ \A k \in Keys : \E v \in InitializedVaults(accounts) :
           accounts[v].authority = k
    /\ \E a \in VaultAddrs : accounts[a].program = SystemProgram

\* C22: even in the vulnerable PDA program the balance of a vault goes
\* down only in an accepted withdraw on that vault whose authority account
\* signed and has the key stored as the vault's authority.
C22_DebitNeedsOwnAuthority ==
    [][prog = PdaVulnerable =>
           \A a \in DOMAIN accounts :
               accounts'[a].balance < accounts[a].balance =>
                   /\ last'.op = "withdraw"
                   /\ last'.result = "Ok"
                   /\ last'.acct = a
                   /\ last'.signed
                   /\ last'.authority = accounts[a].authority
      ]_vars

\* C22 witness: a signed withdraw took the signer's vault down while the
\* other key's vault is funded and was left alone.
C22_Witness ==
    /\ prog = PdaVulnerable
    /\ last.op = "withdraw"
    /\ last.result = "Ok"
    /\ last.signed
    /\ last.arg > 0
    /\ accounts[last.acct].authority = last.authority
    /\ \E v \in InitializedVaults(accounts) :
           /\ accounts[v].authority # last.authority
           /\ accounts[v].balance = U64_MAX

\* What the invocation recorded in `c` moved into (+) or out of (-) the
\* vault at address a: the amount of a successful deposit or withdraw on it.
Moved(c, a) ==
    IF c.result # "Ok" \/ c.acct # a THEN 0
    ELSE IF c.op = "deposit" THEN c.arg
    ELSE IF c.op = "withdraw" THEN 0 - c.arg
    ELSE 0

\* C23: in the secure vault program the recorded balance is the ledger of
\* the transfers performed.  A vault starts with balance 0; every step
\* changes its balance by exactly the amount of the successful deposit (+)
\* or withdraw (-) made on it in that step, and by nothing otherwise; that
\* same invocation issues the transfer of exactly `amount` lamports and the
\* lamports held for the vault move by the same amount.  So the balance is
\* the sum of the successful deposits minus that of the successful
\* withdrawals, it equals the lamports moved in and not yet out, and it is
\* never negative (no more is withdrawn than was deposited).
C23_BalanceIsLedger ==
    [][prog = VaultSecure =>
           \A a \in DOMAIN accounts :
               /\ accounts[a].program = ThisProgram =>
                      /\ accounts'[a].balance = accounts[a].balance + Moved(last', a)
                      /\ accounts'[a].lamports = accounts[a].lamports + Moved(last', a)
               /\ (accounts[a].program # ThisProgram
                      /\ accounts'[a].program = ThisProgram) =>
                      /\ last'.op = "initialize"
                      /\ accounts'[a].balance = 0
                      /\ accounts'[a].lamports = 0
               /\ accounts'[a].program = ThisProgram =>
                      /\ accounts'[a].balance = accounts'[a].lamports
                      /\ accounts'[a].balance >= 0
               /\ Moved(last', a) # 0 => last'.cpi = <<Transfer(last'.arg)>>
      ]_vars

\* C23 witness: after a deposit, part of a vault's balance was withdrawn and
\* the rest is still recorded and held.
C23_Witness ==
    /\ prog = VaultSecure
    /\ last.op = "withdraw"
    /\ last.result = "Ok"
    /\ last.arg > 0
    /\ accounts[last.acct].balance > 0
    /\ accounts[last.acct].lamports = accounts[last.acct].balance

\* The secure programs that have a vulnerable counterpart in the model.
PairedPrograms == {IntSecure, VaultSecure, PdaSecure}

\* The accounts of a secure program as its vulnerable counterpart stores
\* them: the same fields, except that the vulnerable PDA program's Vault has
\* no bump.
Related(accts) ==
    IF prog = PdaSecure
    THEN [a \in DOMAIN accts |->
             [program |-> accts[a].program, disc |-> accts[a].disc,
              authority |-> accts[a].authority, balance |-> accts[a].balance]]
    ELSE accts

\* The invocation recorded in `c` (same accounts passed, same signer, same
\* argument) run by the vulnerable counterpart of the program on the
\* accounts `accts`, in the build `checks`; a lamport transfer goes through
\* as it did in the recorded invocation.
VulnerableRun(accts, c, checks) ==
    LET ctx == Ctx(c.acct, c.to, c.authority, c.signed, c.program)
    IN  CASE prog = IntSecure /\ c.op = "initialize" ->
                 Invoke(int_Initialize(accts, ctx), accts, int_initialize(accts, ctx))
          [] prog = IntSecure /\ c.op = "add_points" ->
                 Invoke(int_UpdateUser(accts, ctx), accts,
                        intv_add_points(accts, ctx, c.arg, checks))
          [] prog = IntSecure /\ c.op = "remove_points" ->
                 Invoke(int_UpdateUser(accts, ctx), accts,
                        intv_remove_points(accts, ctx, c.arg, checks))
          [] prog = IntSecure /\ c.op = "calculate_tokens" ->
                 Invoke(int_UpdateUser(accts, ctx), accts,
                        intv_calculate_tokens(accts, ctx, c.arg, checks))
          [] prog = IntSecure /\ c.op = "calculate_average" ->
                 Invoke(int_UpdateUser(accts, ctx), accts,
                        intv_calculate_average(accts, ctx, c.arg))
          [] prog = VaultSecure /\ c.op = "initialize" ->
                 Invoke(vault_Initialize(accts, ctx), accts, vault_initialize(accts, ctx))
          [] prog = VaultSecure /\ c.op = "deposit" ->
                 Invoke(vault_Deposit(accts, ctx), accts,
                        vault_deposit(accts, ctx, c.arg, c.result = "Ok"))
          [] prog = VaultSecure /\ c.op = "withdraw" ->
                 Invoke(vaultv_Withdraw(accts, ctx), accts,
                        vault_withdraw(accts, ctx, c.arg, c.result = "Ok"))
          [] prog = PdaSecure /\ c.op = "initialize" ->
                 Invoke(pda_Initialize(accts, ctx), accts, pdav_initialize(accts, ctx))
          [] prog = PdaSecure /\ c.op = "deposit" ->
                 Invoke(pdav_Deposit(accts, ctx), accts, pda_deposit(accts, ctx, c.arg))
          [] prog = PdaSecure /\ c.op = "withdraw" ->
                 Invoke(pdav_VulnerableWithdraw(accts, ctx), accts,
                        pdav_withdraw(accts, ctx, c.arg))

\* C24: each secure program restricts its vulnerable counterpart without
\* changing what is accepted.  For the integer, missing-signer and PDA
\* pairs: whenever the secure program accepts an invocation, the vulnerable
\* program run on the same accounts with the same signer and argument (in
\* either build) accepts it too and writes the same account values
\* (authority, balance, points, tokens); the two differ only on invocations
\* the secure program rejects.
C24_SecureRestrictsVulnerable ==
    [][(prog \in PairedPrograms /\ last'.result = "Ok") =>
           \A checks \in BOOLEAN :
               LET v == VulnerableRun(Related(accounts), last', checks)
               IN  /\ v.result = "Ok"
                   /\ v.accounts = Related(accounts')
                   /\ v.cpi = last'.cpi
      ]_vars

\* C24 witness: the secure PDA program accepted a withdraw that changed a
\* balance (which the vulnerable program then accepts as well).
C24_Witness ==
    /\ prog = PdaSecure
    /\ last.op = "withdraw"
    /\ last.result = "Ok"
    /\ last.arg > 0
    /\ accounts[last.acct].balance > 0

\* C25: frame conditions of the secure integer program.  A successful
\* add_points or remove_points changes only points of the account passed
\* (tokens, authority and the account's identity stay); a successful
\* calculate_tokens or calculate_average changes only tokens (points and
\* authority stay); and no invocation on one user account changes any
\* field of another account.
C25_FrameConditions ==
    [][prog = IntSecure =>
           /\ (last'.result = "Ok"
                  /\ last'.op \in {"add_points", "remove_points"}) =>
                  accounts'[last'.acct] =
                      [accounts[last'.acct] EXCEPT
                          !.points = accounts'[last'.acct].points]
           /\ (last'.result = "Ok"
                  /\ last'.op \in {"calculate_tokens", "calculate_average"}) =>
                  accounts'[last'.acct] =
                      [accounts[last'.acct] EXCEPT
                          !.tokens = accounts'[last'.acct].tokens]
           /\ \A a \in DOMAIN accounts :
                  a # last'.acct => accounts'[a] = accounts[a]
      ]_vars

\* C25 witness: calculate_tokens succeeded on an account that holds points
\* and produced tokens, while a second account holds points of its own.
C25_Witness ==
    /\ prog = IntSecure
    /\ last.op = "calculate_tokens"
    /\ last.result = "Ok"
    /\ accounts[last.acct].points > 0
    /\ accounts[last.acct].tokens > 0
    /\ \E a \in DOMAIN accounts :
           a # last.acct /\ accounts[a].points > 0

====
